---------------------------- MODULE Spec2Model ----------------------------
(* A model of package backscanner (src/backscanner.go): a Scanner reads an  *)
(* io.ReaderAt backward from a start offset, in chunks, and returns the     *)
(* lines before that offset from the last to the first.                     *)
EXTENDS Integers, Sequences, FiniteSets, TLC

(* ------------------------------ bytes ----------------------------------- *)

\* '\n', the line separator searched for by LineBytes.
NL == 10
\* '\r', the byte dropCR removes from the end of a line.
CR == 13
\* 'a', an ordinary content byte (as in the inputs of the tests).
Letter == 97

Byte == {NL, CR, Letter}

(* ------------------------------ bounds ---------------------------------- *)

\* Longest source modelled.
MaxLen == 3
\* Largest explicit ChunkSize a caller passes.
MaxChunk == 2
\* Largest explicit MaxBufferSize a caller passes.
MaxBuf == 3
\* Fetch calls made on one scanner.
MaxCalls == 6
\* How far beyond the end of the source a scanner may be started.
MaxBeyond == 1

(* --------------------------- program constants -------------------------- *)

DefaultChunkSize == 1024
DefaultMaxBufferSize == 1048576

\* error values: the nil error, io.EOF, ErrLongLine, and any other error the
\* source's ReadAt may return.
Nil == "nil"
EOF == "EOF"
ErrLongLine == "line too long"
ErrRead == "read error"

(* ------------------------------ helpers --------------------------------- *)

SeqsUpTo(S, n) == UNION {[1..k -> S] : k \in 0..n}

MaxOf(S) == CHOOSE x \in S : \A y \in S : y <= x

\* A Go byte slice: its backing array from the slice's start (the array's
\* length is the slice's capacity) and its length.
Slice(a, n) == [a |-> a, n |-> n]
NilSlice == Slice(<<>>, 0)
Bytes(sl) == SubSeq(sl.a, 1, sl.n)
Cap(sl) == Len(sl.a)

\* make([]byte, size, bufSize): a zeroed array of bufSize bytes, length size.
Make(size, bufSize) == Slice([i \in 1..bufSize |-> 0], size)

\* LastIndexByte finding the first c instead of the last.
LastIndexByteFirst(b, c) ==
    LET S == {i \in 1..Len(b) : b[i] = c}
    IN  IF S = {} THEN -1 ELSE (CHOOSE x \in S : \A y \in S : x <= y) - 1

\* bytes.LastIndexByte: the 0-based index of the last c in b, or -1.
LastIndexByte(b, c) ==
    LET S == {i \in 1..Len(b) : b[i] = c}
    IN  IF S = {} THEN -1 ELSE MaxOf(S) - 1

\* dropCR leaving the data as it is.
dropCRKeep(data) == data

\* dropCR drops a terminal \r from the data.
dropCR(data) ==
    IF Len(data) > 0 /\ data[Len(data)] = CR
    THEN SubSeq(data, 1, Len(data) - 1)
    ELSE data

\* string(lineBytes): a copy of the bytes; a nil slice gives "".
String(lineBytes) == [i \in 1..Len(lineBytes) |-> lineBytes[i]]

(* ------------------------------ state ----------------------------------- *)

VARIABLES
    r,        \* the io.ReaderAt: its bytes and how its ReadAt answers
    start,    \* the pos argument the scanners were constructed with
    opts,     \* opts[i]: the *Options scanner i was constructed with
    scanner,  \* scanner[i]: the fields of Scanner i
    prev,     \* prev[i]: scanner[i] as it was when its latest fetch call began
    results,  \* results[i]: the (line, pos, err) of each fetch call, in order
    reads     \* reads[i]: the ReadAt calls scanner i issued, in order

vars == <<r, start, opts, scanner, prev, results, reads>>

(* ------------------------------ source ---------------------------------- *)

\* How a source answers.  "plain": like strings.Reader, nil on a full read.
\* "eof": io.EOF together with a full read that ends at the end of the data.
\* "fail": reads touching byte failAt fail with ErrRead after delivering the
\* bytes before it.  Every kind refuses a negative offset with an error.
ReaderKinds == {"plain", "eof", "fail"}

\* r.ReadAt(p, off) with len(p) = size: [n, err, p], p the bytes delivered.
ReadAt(rd, size, off) ==
    LET len   == Len(rd.data)
        avail == IF off >= len THEN 0
                 ELSE IF off + size > len THEN len - off ELSE size
    IN  IF off < 0
        THEN [n |-> 0, err |-> ErrRead, p |-> <<>>]
        ELSE IF rd.kind = "fail" /\ off <= rd.failAt /\ rd.failAt < off + avail
        THEN [n |-> rd.failAt - off, err |-> ErrRead,
              p |-> SubSeq(rd.data, off + 1, rd.failAt)]
        ELSE [n |-> avail,
              err |-> IF avail < size THEN EOF
                      ELSE IF rd.kind = "eof" /\ off + size = len THEN EOF
                      ELSE Nil,
              p |-> SubSeq(rd.data, off + 1, off + avail)]

(* ---------------------------- construction ------------------------------ *)

\* OptionOr accepting zero as a valid value.
OptionOrNonNegative(given, default) == IF given >= 0 THEN given ELSE default

\* The effective value of one option field.
OptionOr(given, default) == IF given > 0 THEN given ELSE default

\* The *Options argument: a nil pointer, or a pointer to the two fields.
NilOptions == [nil |-> TRUE, ChunkSize |-> 0, MaxBufferSize |-> 0]
Options(chunk, max) == [nil |-> FALSE, ChunkSize |-> chunk, MaxBufferSize |-> max]

\* NewOptions(r, pos, o); New(r, pos) is NewOptions(r, pos, nil).
NewOptions(pos, o) ==
    [pos  |-> pos,
     o    |-> [ChunkSize |->
                   IF ~o.nil THEN OptionOr(o.ChunkSize, DefaultChunkSize)
                   ELSE DefaultChunkSize,
               MaxBufferSize |->
                   IF ~o.nil THEN OptionOr(o.MaxBufferSize, DefaultMaxBufferSize)
                   ELSE DefaultMaxBufferSize],
     err  |-> Nil,
     buf  |-> NilSlice,
     buf2 |-> NilSlice]

(* ------------------------------ readMore -------------------------------- *)

\* FetchSize ignoring ChunkSize: one byte per read.
FetchSizeOneByte(chunk, pos) == 1

\* FetchSize without the clamp to the bytes left before the cursor.
FetchSizeUnclamped(chunk, pos) == chunk

\* size := s.o.ChunkSize; if size > s.pos { size = s.pos }
FetchSize(chunk, pos) == IF chunk > pos THEN pos ELSE chunk

\* TooLong letting the buffer grow one byte past the limit.
TooLongOffByOne(bufSize, max) == bufSize > max + 1

\* TooLong with the buffer limit never enforced.
TooLongNever(bufSize, max) == FALSE

\* bufSize > s.o.MaxBufferSize
TooLong(bufSize, max) == bufSize > max

\* ReadErr taking only a short read at the end of the source as an error.
ReadErrOnlyEOF(err, n, size) == IF err = "EOF" /\ n < size THEN err ELSE "nil"

\* ReadErr clearing io.EOF whether or not the buffer was read fully.
ReadErrAnyEOFCleared(err, n, size) == IF err = "EOF" THEN "nil" ELSE err

\* ReadErr keeping every io.EOF as an error.
ReadErrStrict(err, n, size) == err

\* s.err after ReadAt: io.EOF with the buffer read fully is not an error.
ReadErr(err, n, size) == IF err = EOF /\ n = size THEN Nil ELSE err

\* The scratch slice the chunk is read into: s.buf2 reused, or a new array.
Scratch(buf2, size, bufSize) ==
    IF Cap(buf2) >= bufSize THEN Slice(buf2.a, size) ELSE Make(size, bufSize)

\* p written over the first Len(p) bytes of sl's array.
Filled(sl, p) ==
    Slice([i \in 1..Cap(sl) |-> IF i <= Len(p) THEN p[i] ELSE sl.a[i]], sl.n)

\* AppendInPlace with the operands swapped: the chunk put after the buffer.
AppendInPlaceSwapped(a, b) ==
    Slice([i \in 1..Cap(a) |->
              IF i <= b.n THEN b.a[i]
              ELSE IF i <= a.n + b.n THEN a.a[i - b.n]
              ELSE a.a[i]],
          a.n + b.n)

\* append(a, b...) when cap(a) >= len(a) + len(b): b copied after a, in place.
AppendInPlace(a, b) ==
    Slice([i \in 1..Cap(a) |->
              IF i <= a.n THEN a.a[i]
              ELSE IF i <= a.n + b.n THEN b.a[i - a.n]
              ELSE a.a[i]],
          a.n + b.n)

\* readMore: [s, reads], the scanner after it and the reads it issued.
readMore(s, rd) ==
    IF s.pos = 0
    THEN [s |-> [s EXCEPT !.err = EOF], reads |-> <<>>]
    ELSE
    LET size    == FetchSize(s.o.ChunkSize, s.pos)
        pos     == s.pos - size
        bufSize == size + s.buf.n
    IN  IF TooLong(bufSize, s.o.MaxBufferSize)
        THEN [s |-> [s EXCEPT !.pos = pos, !.err = ErrLongLine], reads |-> <<>>]
        ELSE
        LET got  == ReadAt(rd, size, pos)
            buf2 == Filled(Scratch(s.buf2, size, bufSize), got.p)
            err  == ReadErr(got.err, got.n, size)
            read == [off |-> pos, size |-> size, n |-> got.n, err |-> got.err]
        IN  IF err = Nil
            THEN [s |-> [s EXCEPT !.pos = pos, !.err = Nil,
                                  !.buf = AppendInPlace(buf2, s.buf),
                                  !.buf2 = s.buf],
                  reads |-> <<read>>]
            ELSE [s |-> [s EXCEPT !.pos = pos, !.err = err, !.buf2 = buf2],
                  reads |-> <<read>>]

(* ------------------------------ LineBytes ------------------------------- *)

\* Latched with no error remembered between calls.
LatchedNever(err) == FALSE

\* Latched with only io.EOF remembered between calls.
LatchedOnlyEOF(err) == err = "EOF"

\* if s.err != nil: the scanner has latched an error.
Latched(err) == err # Nil

\* LinePos relative to the buffer, the cursor left out.
LinePosInBuffer(pos, lineStart) == lineStart + 1

\* LinePos pointing at the separator instead of the byte after it.
LinePosAtSeparator(pos, lineStart) == pos + lineStart

\* The position of a line found after the separator at index lineStart.
LinePos(pos, lineStart) == pos + lineStart + 1

\* What a fetch call hands back, with the scanner after it and its reads.
Outcome(s, line, pos, err, rds) ==
    [s |-> s, line |-> line, pos |-> pos, err |-> err, reads |-> rds]

\* The for loop of LineBytes.
RECURSIVE LineLoop(_, _)
LineLoop(s, rd) ==
    LET b         == Bytes(s.buf)
        lineStart == LastIndexByte(b, NL)
    IN  IF lineStart >= 0
        THEN Outcome([s EXCEPT !.buf = Slice(s.buf.a, lineStart)],
                     dropCR(SubSeq(b, lineStart + 2, Len(b))),
                     LinePos(s.pos, lineStart), Nil, <<>>)
        ELSE
        LET m == readMore(s, rd)
        IN  IF m.s.err # Nil
            THEN IF m.s.err = EOF /\ m.s.buf.n > 0
                 THEN Outcome(m.s, dropCR(Bytes(m.s.buf)), 0, Nil, m.reads)
                 ELSE Outcome(m.s, <<>>, 0, m.s.err, m.reads)
            ELSE LET rest == LineLoop(m.s, rd)
                 IN  [rest EXCEPT !.reads = m.reads \o rest.reads]

\* LineBytes: the outcome of one call on scanner s.
LineBytesOf(s, rd) ==
    IF Latched(s.err) THEN Outcome(s, <<>>, 0, s.err, <<>>) ELSE LineLoop(s, rd)

\* Line: LineBytes with the line copied into a string.
LineOf(s, rd) ==
    LET out == LineBytesOf(s, rd) IN [out EXCEPT !.line = String(out.line)]

(* ------------------------------ actions --------------------------------- *)

\* One fetch call on scanner i with outcome out, recorded in the histories.
Fetch(i, out) ==
    /\ Len(results[i]) < MaxCalls
    /\ prev' = [prev EXCEPT ![i] = scanner[i]]
    /\ scanner' = [scanner EXCEPT ![i] = out.s]
    /\ results' = [results EXCEPT
                      ![i] = Append(@, [line |-> out.line, pos |-> out.pos,
                                        err |-> out.err])]
    /\ reads' = [reads EXCEPT
                    ![i] = @ \o [k \in 1..Len(out.reads) |->
                                    [call |-> Len(results[i]) + 1,
                                     off  |-> out.reads[k].off,
                                     size |-> out.reads[k].size,
                                     n    |-> out.reads[k].n,
                                     err  |-> out.reads[k].err]]]
    /\ UNCHANGED <<r, start, opts>>

LineBytes(i) == Fetch(i, LineBytesOf(scanner[i], r))

Line(i) == Fetch(i, LineOf(scanner[i], r))

(* --------------------------- specifications ----------------------------- *)

ChunkSizes == -1..MaxChunk
MaxBufferSizes == -1..MaxBuf
OptionsSet ==
    {NilOptions} \cup {Options(c, m) : c \in ChunkSizes, m \in MaxBufferSizes}

Readers ==
    {rd \in [data : SeqsUpTo(Byte, MaxLen), kind : ReaderKinds, failAt : 0..MaxLen] :
        IF rd.kind = "fail" THEN rd.failAt < Len(rd.data) ELSE rd.failAt = 0}

\* The scanners ids constructed over r at start with options os[i].
Constructed(ids, os) ==
    /\ opts = os
    /\ scanner = [i \in ids |-> NewOptions(start, os[i])]
    /\ prev = scanner
    /\ results = [i \in ids |-> <<>>]
    /\ reads = [i \in ids |-> <<>>]

\* One scanner over any source, from any start offset up to MaxBeyond past
\* its end.
Init ==
    /\ r \in Readers
    /\ start \in 0..(Len(r.data) + MaxBeyond)
    /\ \E o \in OptionsSet : Constructed({1}, [i \in {1} |-> o])

Next == \E i \in DOMAIN scanner : LineBytes(i) \/ Line(i)

Spec == Init /\ [][Next]_vars

\* Two scanners over one source that answers without errors, constructed
\* with the same start offset and MaxBufferSize and different ChunkSize.
InitPair ==
    /\ r \in {rd \in Readers : rd.kind # "fail"}
    /\ start \in 0..(Len(r.data) + MaxBeyond)
    /\ \E m \in MaxBufferSizes : \E c1, c2 \in ChunkSizes :
          /\ c1 < c2
          /\ Constructed({1, 2},
                 [i \in {1, 2} |-> IF i = 1 THEN Options(c1, m) ELSE Options(c2, m)])

SpecPair == InitPair /\ [][Next]_vars

\* The second input of Test1 and TestScanner, "Start\nLine1\nLine2\nLine3\nEnd".
Test1Input ==
    <<83, 116, 97, 114, 116, 10, 76, 105, 110, 101, 49, 10,
      76, 105, 110, 101, 50, 10, 76, 105, 110, 101, 51, 10, 69, 110, 100>>

\* Largest explicit ChunkSize tried on Test1Input.
Test1MaxChunk == 27

\* One scanner over Test1Input started at its length, as the tests build it:
\* New, or NewOptions with some ChunkSize and the default MaxBufferSize.
InitTest1 ==
    /\ r \in {[data |-> Test1Input, kind |-> k, failAt |-> 0] : k \in {"plain", "eof"}}
    /\ start = Len(Test1Input)
    /\ \E o \in {NilOptions} \cup {Options(c, 0) : c \in -1..Test1MaxChunk} :
          Constructed({1}, [i \in {1} |-> o])

SpecTest1 == InitTest1 /\ [][Next]_vars


(* ------------------- what the claims speak about ------------------------ *)

MinOf(S) == CHOOSE x \in S : \A y \in S : x <= y

\* The bytes a scanner started at start may scan: [0, start) of the source.
Region ==
    SubSeq(r.data, 1, IF start <= Len(r.data) THEN start ELSE Len(r.data))

\* The source answers every read in range without an error of its own.
Healthy == r.kind # "fail"

\* b split at every '\n', in forward order.
RECURSIVE SplitNL(_)
SplitNL(b) ==
    LET S == {i \in 1..Len(b) : b[i] = NL}
    IN  IF S = {} THEN <<b>>
        ELSE <<SubSeq(b, 1, MinOf(S) - 1)>> \o SplitNL(SubSeq(b, MinOf(S) + 1, Len(b)))

Reverse(s) == [k \in 1..Len(s) |-> s[Len(s) + 1 - k]]

\* One trailing '\r' removed.
StripCR(b) ==
    IF Len(b) > 0 /\ b[Len(b)] = CR THEN SubSeq(b, 1, Len(b) - 1) ELSE b

NumNL(b) == Cardinality({i \in 1..Len(b) : b[i] = NL})

\* The 1-based index of the k-th '\n' of b counted from its end.
KthLastNL(b, k) ==
    CHOOSE p \in 1..Len(b) :
        b[p] = NL /\ Cardinality({q \in (p + 1)..Len(b) : b[q] = NL}) = k - 1

\* The offset of the first byte of the k-th line of b counted from its end,
\* and the offset right after its last byte.
LineBegin(b, k) == IF k <= NumNL(b) THEN KthLastNL(b, k) ELSE 0
LineEnd(b, k) == IF k = 1 THEN Len(b) ELSE KthLastNL(b, k - 1) - 1

\* The length of the longest run of bytes of b holding no '\n'.
LongestRun(b) == MaxOf({Len(SplitNL(b)[k]) : k \in 1..Len(SplitNL(b))})

Ids == DOMAIN scanner
Successful(res) == res.err = Nil
IsEOFResult(res) == res = [line |-> <<>>, pos |-> 0, err |-> EOF]
LinesOf(i) ==
    LET ok == SelectSeq(results[i], Successful)
    IN  [k \in 1..Len(ok) |-> ok[k].line]
ReadsOfCall(i, n) == SelectSeq(reads[i], LAMBDA rec : rec.call = n)

(* ------------------------------ C1 -------------------------------------- *)

\* C1: for a scanner started at the length of a (non-empty) input whose
\* source answers without errors, the lines returned up to the first io.EOF
\* are the input split at every '\n', in reverse order, each with one
\* trailing '\r' removed.
C1_ReverseOfSplit ==
    \A i \in Ids :
        (/\ Healthy
         /\ start = Len(r.data)
         /\ start > 0
         /\ \E k \in 1..Len(results[i]) : results[i][k].err = EOF)
        => LinesOf(i) = [k \in 1..Len(SplitNL(r.data)) |->
                            StripCR(Reverse(SplitNL(r.data))[k])]

(* ------------------------------ C2 -------------------------------------- *)

C3_ChunkSizeIndependent ==
    (/\ Ids = {1, 2}
     /\ Healthy
     /\ start <= Len(r.data)
     /\ scanner[1].o.MaxBufferSize = scanner[2].o.MaxBufferSize)
    => \A k \in 1..Len(results[1]) :
           k <= Len(results[2]) => results[1][k] = results[2][k]

(* ------------------------------ C4 -------------------------------------- *)

\* C4: once the first line of the input (the line at offset 0) has been
\* returned, or io.EOF has been returned, every later fetch call returns
\* io.EOF with an empty line and position 0.
C4_EOFAfterLastLine ==
    \A i \in Ids : \A j, k \in 1..Len(results[i]) :
        (/\ j < k
         /\ \/ Successful(results[i][j]) /\ results[i][j].pos = 0
            \/ results[i][j].err = EOF)
        => IsEOFResult(results[i][k])

\* The first line of the input was returned and two calls followed it.
C4_Witness ==
    LET n == Len(results[1])
    IN  /\ n >= 3
        /\ Successful(results[1][n - 2])
        /\ results[1][n - 2].pos = 0
        /\ results[1][n - 2].line # <<>>
        /\ IsEOFResult(results[1][n - 1])
        /\ IsEOFResult(results[1][n])

(* ------------------------------ C5 -------------------------------------- *)

\* C5: a fetch call made after a call that returned an error returns the same
\* error with an empty line and position 0, issues no read, and leaves the
\* cursor and the buffer as they were.
C5_TerminalStatusLatched ==
    \A i \in Ids :
        LET n == Len(results[i])
        IN  (n >= 2 /\ results[i][n - 1].err # Nil) =>
                /\ results[i][n] =
                       [line |-> <<>>, pos |-> 0, err |-> results[i][n - 1].err]
                /\ ReadsOfCall(i, n) = <<>>
                /\ scanner[i].pos = prev[i].pos
                /\ scanner[i].buf = prev[i].buf

\* ErrLongLine was returned after a line, and returned again by the next call.
C5_Witness ==
    LET n == Len(results[1])
    IN  /\ n >= 3
        /\ Successful(results[1][n - 2])
        /\ results[1][n - 1].err = ErrLongLine
        /\ results[1][n].err = ErrLongLine

(* ------------------------------ C6 -------------------------------------- *)

C7_NoErrLongLineForShortLines ==
    \A i \in Ids : \A k \in 1..Len(results[i]) :
        (start <= Len(r.data) /\ LongestRun(Region) <= scanner[i].o.MaxBufferSize)
        => results[i][k].err # ErrLongLine

(* ------------------------------ C8 -------------------------------------- *)

\* C8: every read covers [off, off + size) with 0 <= off; the first read ends
\* at the start offset and each later read ends exactly where the read before
\* it began, at a strictly smaller offset.
C8_ReadsBackwardAndContiguous ==
    \A i \in Ids : \A k \in 1..Len(reads[i]) :
        LET rec == reads[i][k]
        IN  /\ 0 <= rec.off
            /\ rec.size >= 1
            /\ rec.off + rec.size <= start
            /\ k = 1 => rec.off + rec.size = start
            /\ k > 1 => /\ rec.off + rec.size = reads[i][k - 1].off
                        /\ rec.off < reads[i][k - 1].off

\* Two reads were issued, the second one reaching offset 0 with fewer bytes
\* than a whole chunk.
C8_Witness ==
    /\ Len(reads[1]) = 2
    /\ reads[1][1].size = 2
    /\ reads[1][2].size = 1
    /\ reads[1][2].off = 0

(* ------------------------------ C9 -------------------------------------- *)

\* The six results over Test1Input, the first four lines at positions p.
Test1Results(p) ==
    <<[line |-> <<69, 110, 100>>,          pos |-> p[1], err |-> Nil],
      [line |-> <<76, 105, 110, 101, 51>>, pos |-> p[2], err |-> Nil],
      [line |-> <<76, 105, 110, 101, 50>>, pos |-> p[3], err |-> Nil],
      [line |-> <<76, 105, 110, 101, 49>>, pos |-> p[4], err |-> Nil],
      [line |-> <<83, 116, 97, 114, 116>>, pos |-> 0,    err |-> Nil],
      [line |-> <<>>,                      pos |-> 0,    err |-> EOF]>>

\* The fetches of a scanner with the default MaxBufferSize started at the
\* end of Test1Input are the first results of exp.
Test1Yields(exp) ==
    (/\ r.data = Test1Input
     /\ start = Len(Test1Input)
     /\ scanner[1].o.MaxBufferSize = DefaultMaxBufferSize)
    => \A k \in 1..Len(results[1]) : k <= Len(exp) => results[1][k] = exp[k]

C10_ExhaustionAtCursorZero ==
    \A i \in Ids :
        LET n    == Len(results[i])
            p    == prev[i]
            s    == scanner[i]
            last == results[i][n]
        IN  /\ (/\ n >= 1
                /\ p.err = Nil
                /\ p.pos = 0
                /\ \A x \in 1..p.buf.n : p.buf.a[x] # NL)
               => /\ ReadsOfCall(i, n) = <<>>
                  /\ s.err = EOF
                  /\ s.buf = p.buf
            /\ (n >= 1 /\ p.err = Nil /\ s.err = EOF /\ s.pos = 0)
               => IF s.buf.n = 0
                  THEN IsEOFResult(last)
                  ELSE last = [line |-> StripCR(SubSeq(s.buf.a, 1, s.buf.n)),
                               pos |-> 0, err |-> Nil]
            /\ (n >= 2 /\ p.err = EOF /\ Successful(results[i][n - 1]))
               => IsEOFResult(last)

\* A call began with the cursor at 0 and a buffer ending in '\r', returned
\* it as the final line, and the next call returned io.EOF.
C10_Witness ==
    LET n == Len(results[1])
    IN  /\ n >= 3
        /\ prev[1].err = EOF
        /\ prev[1].pos = 0
        /\ prev[1].buf.n >= 2
        /\ prev[1].buf.a[prev[1].buf.n] = CR
        /\ Successful(results[1][n - 1])
        /\ results[1][n - 1].line # <<>>
        /\ IsEOFResult(results[1][n])

(* ------------------------------ C11 ------------------------------------- *)

\* C11: the effective ChunkSize and MaxBufferSize are each positive; each is
\* the caller's value when options were given and that value is > 0, and
\* otherwise its default, whatever the other field is.
C11_OptionsDefaulted ==
    \A i \in Ids :
        LET given == opts[i]
            o     == scanner[i].o
        IN  /\ o.ChunkSize > 0
            /\ o.MaxBufferSize > 0
            /\ o.ChunkSize =
                   IF ~given.nil /\ given.ChunkSize > 0
                   THEN given.ChunkSize ELSE DefaultChunkSize
            /\ o.MaxBufferSize =
                   IF ~given.nil /\ given.MaxBufferSize > 0
                   THEN given.MaxBufferSize ELSE DefaultMaxBufferSize

\* A scanner built with ChunkSize 0 and a positive MaxBufferSize has the
\* default ChunkSize and the caller's MaxBufferSize, and has fetched with them.
C11_Witness ==
    /\ ~opts[1].nil
    /\ opts[1].ChunkSize = 0
    /\ opts[1].MaxBufferSize = 2
    /\ scanner[1].o = [ChunkSize |-> DefaultChunkSize, MaxBufferSize |-> 2]
    /\ Len(results[1]) >= 1

(* ------------------------------ C12 ------------------------------------- *)

\* The lines scanner i has returned that consumed a separator: every
\* successful result but the earliest line of the region.
SeparatorsConsumed(i) ==
    LET ok == Len(SelectSeq(results[i], Successful))
    IN  IF ok <= NumNL(Region) THEN ok ELSE NumNL(Region)

\* The offset of the separator consumed for the line scanner i returned most
\* recently, or the start offset when it has consumed none.
LastEmit(i) ==
    IF SeparatorsConsumed(i) = 0 THEN start
    ELSE KthLastNL(Region, SeparatorsConsumed(i)) - 1

\* The bytes [from, to) of the source.
SourceBytes(from, to) == SubSeq(r.data, from + 1, to)

\* C12 as stated: between fetch calls the buffer is exactly the source bytes
\* [cursor, e), e the offset of the separator consumed last (or the start
\* offset), also after the final line, ErrLongLine or a read error.
C12_BufferIsCursorToLastEmit ==
    \A i \in Ids :
        start <= Len(r.data) =>
            Bytes(scanner[i].buf) = SourceBytes(scanner[i].pos, LastEmit(i))

\* C12 amended: the buffer is always exactly the source bytes that end at e,
\* and they begin at the cursor in every state where the scanner has latched
\* neither ErrLongLine nor a read error.
C12_BufferEndsAtLastEmit ==
    \A i \in Ids :
        start <= Len(r.data) =>
            /\ scanner[i].buf.n <= LastEmit(i)
            /\ Bytes(scanner[i].buf) =
                   SourceBytes(LastEmit(i) - scanner[i].buf.n, LastEmit(i))
            /\ scanner[i].err \in {Nil, EOF} =>
                   scanner[i].pos + scanner[i].buf.n = LastEmit(i)

\* A line has been returned and bytes before its separator wait in the
\* buffer, with more of the source still to read.
C12_Witness ==
    /\ scanner[1].err = Nil
    /\ scanner[1].pos >= 1
    /\ scanner[1].buf.n >= 1
    /\ Len(results[1]) >= 1
    /\ LastEmit(1) < start

(* ------------------------------ C13 ------------------------------------- *)

\* The latest fetch call of scanner i reported io.EOF, or returned the final
\* line through the exhaustion path (io.EOF latched with a line returned).
ReportedExhaustion(i) ==
    LET n == Len(results[i])
    IN  /\ n >= 1
        /\ prev[i].err = Nil
        /\ \/ results[i][n].err = EOF
           \/ Successful(results[i][n]) /\ scanner[i].err = EOF

\* No fetch call raises the cursor, and it stays within [0, start].
CursorMonotone ==
    \A i \in Ids :
        /\ 0 <= scanner[i].pos
        /\ scanner[i].pos <= prev[i].pos
        /\ prev[i].pos <= start

\* C13 as stated: the cursor never increases, stays within [0, start], and
\* is 0 whenever a fetch call reports end-of-source or returns the final line.
C13_CursorZeroAtExhaustion ==
    /\ CursorMonotone
    /\ \A i \in Ids : ReportedExhaustion(i) => scanner[i].pos = 0

\* C13 amended: the same, the cursor being 0 at end-of-source for a start
\* offset that does not exceed the length of the source.
C13_CursorZeroAtExhaustionInRange ==
    /\ CursorMonotone
    /\ \A i \in Ids :
           (ReportedExhaustion(i) /\ start <= Len(r.data)) => scanner[i].pos = 0

\* After two reads that moved the cursor from the start offset down to 0, a
\* fetch call reported io.EOF.
C13_Witness ==
    LET n == Len(results[1])
    IN  /\ start <= Len(r.data)
        /\ ReportedExhaustion(1)
        /\ results[1][n].err = EOF
        /\ Len(reads[1]) >= 2
        /\ scanner[1].pos = 0

(* ------------------------------ C14 ------------------------------------- *)

\* C14: the buffer never holds more than MaxBufferSize bytes, and no line
\* returned is longer than MaxBufferSize.
C14_BufferWithinMax ==
    \A i \in Ids :
        /\ scanner[i].buf.n <= scanner[i].o.MaxBufferSize
        /\ \A k \in 1..Len(results[i]) :
               Successful(results[i][k]) =>
                   Len(results[i][k].line) <= scanner[i].o.MaxBufferSize

\* The buffer was filled to exactly MaxBufferSize and returned as a line of
\* that length.
C14_Witness ==
    LET n == Len(results[1])
    IN  /\ opts[1].MaxBufferSize = 2
        /\ scanner[1].buf.n = 2
        /\ n >= 1
        /\ Successful(results[1][n])
        /\ Len(results[1][n].line) = 2

(* ------------------------------ C15 ------------------------------------- *)

\* n fetch calls in a row on scanner s over source rd: the scanner after
\* them, their results and the ranges they read.
RECURSIVE Replay(_, _, _)
Replay(s, rd, n) ==
    IF n = 0 THEN [s |-> s, results |-> <<>>, ranges |-> <<>>]
    ELSE LET before == Replay(s, rd, n - 1)
             out    == LineBytesOf(before.s, rd)
         IN  [s       |-> out.s,
              results |-> Append(before.results,
                                 [line |-> out.line, pos |-> out.pos, err |-> out.err]),
              ranges  |-> before.ranges \o
                          [k \in 1..Len(out.reads) |->
                              <<out.reads[k].off, out.reads[k].size>>]]

\* C15: over a source that answers a fully satisfied read at its end with
\* io.EOF, a scanner returns the results, reads the ranges and ends in the
\* state (buffer, cursor, latched error) that it does over the same bytes
\* served by a source that answers such reads with no error.
C15_EOFOnFullReadIsSuccess ==
    \A i \in Ids :
        r.kind = "eof" =>
            LET same == Replay(NewOptions(start, opts[i]),
                               [r EXCEPT !.kind = "plain"], Len(results[i]))
            IN  /\ results[i] = same.results
                /\ scanner[i] = same.s
                /\ [k \in 1..Len(reads[i]) |-> <<reads[i][k].off, reads[i][k].size>>]
                       = same.ranges

\* A read delivered all its bytes together with io.EOF; the bytes went into
\* the buffer, no error was latched and a line was returned from them.
C15_Witness ==
    /\ r.kind = "eof"
    /\ Len(reads[1]) >= 1
    /\ reads[1][1].err = EOF
    /\ reads[1][1].n = reads[1][1].size
    /\ scanner[1].err = Nil
    /\ scanner[1].buf.n >= 1
    /\ Len(results[1]) = 1
    /\ Successful(results[1][1])

(* ------------------------------ C16 ------------------------------------- *)

\* C16: a read that fails with an error other than io.EOF is the last read
\* the scanner issues; the fetch call it was issued in returns that error
\* with an empty line and position 0; and the buffer holds none of the bytes
\* the read was asked for: it is the source bytes from the end of the failed
\* read's range up to the last separator consumed.
C16_ReadFailureSurfaced ==
    \A i \in Ids : \A k \in 1..Len(reads[i]) :
        LET rec == reads[i][k]
        IN  rec.err \notin {Nil, EOF} =>
                /\ k = Len(reads[i])
                /\ results[i][rec.call] =
                       [line |-> <<>>, pos |-> 0, err |-> rec.err]
                /\ scanner[i].err = rec.err
                /\ scanner[i].pos = rec.off
                /\ Bytes(scanner[i].buf) =
                       SourceBytes(rec.off + rec.size, LastEmit(i))

\* After a line had been returned with bytes left in the buffer, a read
\* failed; the call returned the error and the buffer kept only those bytes.
C16_Witness ==
    /\ Len(results[1]) = 2
    /\ Successful(results[1][1])
    /\ results[1][2].err = ErrRead
    /\ Len(reads[1]) = 2
    /\ reads[1][2].err = ErrRead
    /\ scanner[1].buf.n >= 1

(* ------------------------------ C17 ------------------------------------- *)

\* C17 as stated: each fetch call issues at most one read on the source.
C17_AtMostOneReadPerCall ==
    \A i \in Ids : \A n \in 1..Len(results[i]) : Len(ReadsOfCall(i, n)) <= 1

\* C17 amended: a fetch call issues at most one read for each chunk that lies
\* before the cursor when the call begins, ceil(cursor / ChunkSize) reads.
C17_AtMostOneReadPerChunk ==
    \A i \in Ids :
        LET n == Len(results[i])
        IN  n >= 1 =>
                Len(ReadsOfCall(i, n)) * scanner[i].o.ChunkSize
                    < prev[i].pos + scanner[i].o.ChunkSize

\* One fetch call issued two reads before it returned a line.
C17_Witness ==
    /\ Len(results[1]) = 1
    /\ Successful(results[1][1])
    /\ Len(ReadsOfCall(1, 1)) = 2
    /\ scanner[1].o.ChunkSize = 1

(* ------------------------------ C18 ------------------------------------- *)

\* C18: every read of a fetch call lowers the cursor by at least 1, so a call
\* issues no more reads than the cursor it began with; a call that found no
\* line in the buffer lowered the cursor or latched a terminal state; and a
\* scanner returns at most (number of '\n' in the scanned region) + 1 lines.
C18_BoundedReadsAndLines ==
    \A i \in Ids :
        LET n == Len(results[i])
        IN  /\ n >= 1 =>
                /\ scanner[i].pos + Len(ReadsOfCall(i, n)) <= prev[i].pos
                /\ \/ scanner[i].err # Nil
                   \/ scanner[i].pos < prev[i].pos
                   \/ /\ Successful(results[i][n])
                      /\ scanner[i].buf.n < prev[i].buf.n
            /\ Len(SelectSeq(results[i], Successful)) <= NumNL(Region) + 1

\* A region with one separator gave its two lines, the first call taking two
\* reads, and then io.EOF.
C18_Witness ==
    LET n == Len(results[1])
    IN  /\ NumNL(Region) = 1
        /\ n = 3
        /\ Len(SelectSeq(results[1], Successful)) = 2
        /\ results[1][3].err = EOF
        /\ Len(ReadsOfCall(1, 1)) >= 2

(* ------------------------------ C19 ------------------------------------- *)

\* C19: of two lines a scanner returned, the later one is reported at a
\* strictly smaller position, and a line reported at position 0 is the last
\* line returned.
C19_PositionsStrictlyDecrease ==
    \A i \in Ids : \A j, k \in 1..Len(results[i]) :
        (j < k /\ Successful(results[i][j]) /\ Successful(results[i][k])) =>
            /\ results[i][k].pos <= results[i][j].pos - 1
            /\ results[i][j].pos # 0

\* Three lines were returned, the last of them at position 0.
C19_Witness ==
    /\ Len(results[1]) >= 3
    /\ Successful(results[1][1])
    /\ Successful(results[1][2])
    /\ Successful(results[1][3])
    /\ results[1][3].pos = 0

(* ------------------------------ C20 ------------------------------------- *)

\* C20: a scanner started beyond the end of the source never returns a line;
\* its first fetch call, unless its read fails with an error of the source's
\* own, returns ErrLongLine when the first fetch size min(ChunkSize, start)
\* exceeds MaxBufferSize and io.EOF otherwise.
C20_StartBeyondSource ==
    \A i \in Ids :
        start > Len(r.data) =>
            /\ \A k \in 1..Len(results[i]) : ~Successful(results[i][k])
            /\ (/\ Len(results[i]) >= 1
                /\ \A k \in 1..Len(reads[i]) : reads[i][k].err = EOF)
               => results[i][1].err =
                      IF (IF scanner[i].o.ChunkSize > start
                          THEN start ELSE scanner[i].o.ChunkSize)
                             > scanner[i].o.MaxBufferSize
                      THEN ErrLongLine ELSE EOF

\* Started one byte beyond a source that holds a line, the first read came
\* back short with some bytes and io.EOF, and two calls returned io.EOF.
C20_Witness ==
    /\ start > Len(r.data)
    /\ NumNL(r.data) >= 1
    /\ Len(reads[1]) = 1
    /\ reads[1][1].n >= 2
    /\ reads[1][1].err = EOF
    /\ Len(results[1]) = 2
    /\ IsEOFResult(results[1][1])
    /\ IsEOFResult(results[1][2])

=============================================================================
